---- MODULE Spec2Model ----
(***************************************************************************)
(* Model of src/src/multisig/mod.rs (anistark/iota-sdk): the multisig      *)
(* address builder (validate_address, add_address_digest,                  *)
(* finalize_address), the bundle initiator (initiate_transfer) and the     *)
(* collaborative signer (add_signature).                                   *)
(*                                                                         *)
(* Strings of trytes are sequences of one-character strings.  Widths are   *)
(* scaled down: MESSAGE_LENGTH stands for constants::MESSAGE_LENGTH (2187  *)
(* trytes) and TAG_LENGTH for constants::TAG_LENGTH (27 trytes).           *)
(* Timestamps (Utc::now()) are left out of the entries.                    *)
(***************************************************************************)
EXTENDS Integers, Sequences, FiniteSets, TLC

VARIABLES
    pc,          \* position of the caller: which operation comes next
    transfers,   \* the caller-owned transfer list (&mut [Transfer])
    args,        \* the other arguments of initiate_transfer
    locals,      \* initiate_transfer's locals after the transfer loop
    result,      \* what initiate_transfer returned
    queries,     \* number of iri_api::get_balances calls made
    reply,       \* what the last get_balances call returned
    bundle,      \* the caller-owned Bundle handed to add_signature
    signLog,     \* one record per add_signature call, in call order
    digests,     \* the ordered digest list the cosigners agreed on
    absorbed,    \* how many digests add_address_digest has absorbed
    curlState,   \* the serialized sponge state passed between cosigners
    address,     \* what finalize_address returned
    validation   \* what validate_address returned

vars == <<pc, transfers, args, locals, result, queries, reply, bundle, signLog,
          digests, absorbed, curlState, address, validation>>

(***************************************************************************)
(* Bounds.                                                                 *)
(***************************************************************************)
MESSAGE_LENGTH == 2
TAG_LENGTH == 2
MaxMsgLen == 4
MaxTransfers == 2
MaxValue == 1
MaxBalance == 3
MaxSecuritySum == 3
NumCosigners == 2
MaxDigests == 2

(***************************************************************************)
(* Program constants.                                                      *)
(***************************************************************************)
MaxSecurity == 3
NormalizedChunks == 3
TritsPerTryte == 3

(***************************************************************************)
(* Strings.                                                                *)
(***************************************************************************)
RECURSIVE Repeat(_, _)
Repeat(c, n) == IF n <= 0 THEN <<>> ELSE <<c>> \o Repeat(c, n - 1)

Take(s, n) == SubSeq(s, 1, IF n < Len(s) THEN n ELSE Len(s))

Skip(s, n) == SubSeq(s, n + 1, Len(s))

RightPadString(s, n, c) == s \o Repeat(c, n - Len(s))

IsNineTrytes(s) == \A i \in 1..Len(s) : s[i] = "9"

(***************************************************************************)
(* Addresses: a hash part and an optional checksum suffix.                 *)
(***************************************************************************)
Addr(h, cs) == [hash |-> h, checksum |-> cs]

MultisigAddress == Addr("M", FALSE)

RemainderAddress == Addr("R", FALSE)

BadAddress == Addr("bad", FALSE)

RemoveChecksum(a) == [a EXCEPT !.checksum = FALSE]

IsAddress(a) == a.hash # "bad"

IsTransfersCollectionValid(ts) == \A i \in 1..Len(ts) : IsAddress(ts[i].address)

(***************************************************************************)
(* Signature-fragment fields.  A field is either tryte text (a message     *)
(* fragment or the all-nines placeholder) or the trytes of a signature     *)
(* fragment, kept symbolically: who signed, with which key chunk, over     *)
(* which chunk of the normalized bundle hash.                              *)
(***************************************************************************)
TextFragment(s) == [kind |-> "text", text |-> s, owner |-> 0, keyChunk |-> 0, hashChunk |-> 0]

EmptySignatureFragment == TextFragment(Repeat("9", MESSAGE_LENGTH))

SignatureFragment(hashChunk, keyChunk) ==
    [kind |-> "sig", text |-> <<>>, owner |-> keyChunk.owner,
     keyChunk |-> keyChunk.chunk, hashChunk |-> hashChunk]

IsNineFragment(f) == f.kind = "text" /\ IsNineTrytes(f.text)

(***************************************************************************)
(* Bundle collaborator.                                                    *)
(***************************************************************************)
Entry(a, v, t) == [address |-> a, value |-> v, tag |-> t, signature_fragments |-> TextFragment(<<>>)]

AddEntry(b, signature_message_length, a, v, t) ==
    b \o [i \in 1..signature_message_length |-> Entry(a, IF i = 1 THEN v ELSE 0, t)]

AddTrytes(b, signature_fragments) ==
    [i \in 1..Len(b) |->
        [b[i] EXCEPT !.signature_fragments =
            IF i <= Len(signature_fragments)
            THEN TextFragment(signature_fragments[i])
            ELSE EmptySignatureFragment]]

(***************************************************************************)
(* initiate_transfer: the transfer loop.                                   *)
(***************************************************************************)
StripChecksums(ts) ==
    [i \in 1..Len(ts) |-> [ts[i] EXCEPT !.address = RemoveChecksum(ts[i].address)]]

RECURSIVE SplitMessage(_)
SplitMessage(msg_copy) ==
    IF msg_copy = <<>> THEN <<>>
    ELSE <<RightPadString(Take(msg_copy, MESSAGE_LENGTH), MESSAGE_LENGTH, "9")>>
         \o SplitMessage(Skip(msg_copy, MESSAGE_LENGTH))

MessageFragments(message) ==
    IF Len(message) > MESSAGE_LENGTH
    THEN SplitMessage(message)
    ELSE <<RightPadString(Take(message, MESSAGE_LENGTH), MESSAGE_LENGTH, "9")>>

SignatureMessageLength(message) ==
    IF Len(message) > MESSAGE_LENGTH
    THEN 1 + (Len(message) \div MESSAGE_LENGTH)
    ELSE 1

PaddedTag(transfer) == RightPadString(transfer.tag, TAG_LENGTH, "9")

RECURSIVE TransferLoop(_, _, _)
TransferLoop(ts, i, acc) ==
    IF i > Len(ts) THEN acc
    ELSE TransferLoop(ts, i + 1,
            [bundle |-> AddEntry(acc.bundle, SignatureMessageLength(ts[i].message),
                                 ts[i].address, ts[i].value, PaddedTag(ts[i])),
             total_value |-> acc.total_value + ts[i].value,
             signature_fragments |-> acc.signature_fragments \o MessageFragments(ts[i].message),
             signature_message_length |->
                 Append(acc.signature_message_length, SignatureMessageLength(ts[i].message)),
             tag |-> PaddedTag(ts[i])])

LoopStart ==
    [bundle |-> <<>>, total_value |-> 0, signature_fragments |-> <<>>,
     signature_message_length |-> <<>>, tag |-> <<>>]

(***************************************************************************)
(* initiate_transfer: the create_bundle closure.                           *)
(***************************************************************************)
Ok(b) == [status |-> "Ok", bundle |-> b]

Err(e) == [status |-> e, bundle |-> <<>>]

NoResult == [status |-> "none", bundle |-> <<>>]

WithInputSingleEntry(l, a, total_balance) ==
    IF total_balance > 0
    THEN AddEntry(l.bundle, 1, a.address, 0 - total_balance, l.tag)
    ELSE l.bundle

WithInputOfTotal(l, a, total_balance) ==
    IF total_balance > 0
    THEN AddEntry(l.bundle, a.security_sum, a.address, 0 - l.total_value, l.tag)
    ELSE l.bundle

WithInput(l, a, total_balance) ==
    IF total_balance > 0
    THEN AddEntry(l.bundle, a.security_sum, a.address, 0 - total_balance, l.tag)
    ELSE l.bundle

WithRemainderAlsoWhenEqual(b, l, a, total_balance) ==
    IF total_balance >= l.total_value
    THEN AddEntry(b, 1, a.remainder_address, total_balance - l.total_value, l.tag)
    ELSE b

WithRemainder(b, l, a, total_balance) ==
    IF total_balance > l.total_value
    THEN AddEntry(b, 1, a.remainder_address, total_balance - l.total_value, l.tag)
    ELSE b

EnoughBalanceUnlessEmpty(total_balance, total_value) ==
    total_balance <= 0 \/ total_balance >= total_value

EnoughBalance(total_balance, total_value) == total_balance >= total_value

CreateBundleRemainderFirst(l, a, total_balance) ==
    IF ~EnoughBalance(total_balance, l.total_value)
    THEN Err("NotEnoughBalance")
    ELSE Ok(AddTrytes(WithInput([l EXCEPT !.bundle = WithRemainder(l.bundle, l, a, total_balance)],
                                a, total_balance),
                      l.signature_fragments))

CreateBundle(l, a, total_balance) ==
    IF ~EnoughBalance(total_balance, l.total_value)
    THEN Err("NotEnoughBalance")
    ELSE Ok(AddTrytes(WithRemainder(WithInput(l, a, total_balance), l, a, total_balance),
                      l.signature_fragments))

RequiresSignatureOrNone(total_value) == total_value >= 0

RequiresSignature(total_value) == total_value # 0

(***************************************************************************)
(* initiate_transfer as a whole.  `balances` is what the balance query     *)
(* returns when it is made: a balance or a transport failure.              *)
(***************************************************************************)
Some(v) == [some |-> TRUE, value |-> v]

None == [some |-> FALSE, value |-> 0]

Reply(v) == [ok |-> TRUE, value |-> v]

TransportFailure == [ok |-> FALSE, value |-> 0]

Validated(ts, a) ==
    IF ~IsAddress(a.address) \/ ~IsAddress(a.remainder_address) THEN "InvalidAddress"
    ELSE IF ~IsTransfersCollectionValid(ts) THEN "InvalidTransfers"
    ELSE "Ok"

InitiateTransferResult(ts, a, balances) ==
    LET stripped == StripChecksums(ts)
        l == TransferLoop(stripped, 1, LoopStart)
    IN  IF Validated(stripped, a) # "Ok" THEN Err(Validated(stripped, a))
        ELSE IF ~RequiresSignature(l.total_value) THEN Err("NoSignatureRequired")
        ELSE IF a.balance.some THEN CreateBundle(l, a, a.balance.value)
        ELSE IF ~balances.ok THEN Err("TransportFailure")
        ELSE CreateBundle(l, a, balances.value)

QueriesMadeDespiteOverride(ts, a) ==
    LET stripped == StripChecksums(ts)
    IN  IF Validated(stripped, a) = "Ok"
           /\ RequiresSignature(TransferLoop(stripped, 1, LoopStart).total_value)
        THEN 1 ELSE 0

QueriesMade(ts, a) ==
    LET stripped == StripChecksums(ts)
    IN  IF Validated(stripped, a) = "Ok"
           /\ RequiresSignature(TransferLoop(stripped, 1, LoopStart).total_value)
           /\ ~a.balance.some
        THEN 1 ELSE 0

(***************************************************************************)
(* add_signature.  A key is owned by a cosigner and `len` trytes long;     *)
(* its j-th chunk is trits [j * 6561, (j + 1) * 6561), that is trytes      *)
(* [j * MESSAGE_LENGTH, (j + 1) * MESSAGE_LENGTH).                         *)
(***************************************************************************)
Key(c, security) == [owner |-> c, len |-> security * MESSAGE_LENGTH]

KeyChunk(key, j) == [owner |-> key.owner, chunk |-> j]

ShortKey(c) == [owner |-> c, len |-> MESSAGE_LENGTH - 1]

Security(key) == key.len \div MESSAGE_LENGTH

NormalizedBundleFragmentFixed(num_signed_transactions, j) ==
    num_signed_transactions % NormalizedChunks

NormalizedBundleFragment(num_signed_transactions, j) ==
    (num_signed_transactions + j) % NormalizedChunks

CountedAsSigned(entry) == IsNineFragment(entry.signature_fragments)

Signed(b) == [status |-> "Ok", bundle |-> b]

Panicked(b) == [status |-> "Panic", bundle |-> b]

RECURSIVE SignNextFragments(_, _, _, _, _)
SignNextFragments(b, i, j, key, num_signed_transactions) ==
    IF j >= Security(key) THEN Signed(b)
    ELSE IF i + j > Len(b) THEN Panicked(b)
    ELSE SignNextFragments(
            [b EXCEPT ![i + j].signature_fragments =
                SignatureFragment(NormalizedBundleFragment(num_signed_transactions, j),
                                  KeyChunk(key, j))],
            i, j + 1, key, num_signed_transactions)

SignGroup(b, i, key, num_signed_transactions) ==
    IF TritsPerTryte * key.len < TritsPerTryte * MESSAGE_LENGTH THEN Panicked(b)
    ELSE SignNextFragments(
            [b EXCEPT ![i].signature_fragments =
                SignatureFragment(NormalizedBundleFragment(num_signed_transactions, 0),
                                  KeyChunk(key, 0))],
            i, 1, key, num_signed_transactions)

RECURSIVE ScanBundle(_, _, _, _, _)
ScanBundle(b, i, input_address, key, num_signed_transactions) ==
    IF i > Len(b) THEN Signed(b)
    ELSE IF b[i].address = input_address
    THEN IF CountedAsSigned(b[i])
         THEN ScanBundle(b, i + 1, input_address, key, num_signed_transactions + 1)
         ELSE SignGroup(b, i, key, num_signed_transactions)
    ELSE ScanBundle(b, i + 1, input_address, key, num_signed_transactions)

AddSignatureResultEagerKey(bundle_to_sign, input_address, key) ==
    IF key.len < MESSAGE_LENGTH THEN Panicked(bundle_to_sign)
    ELSE ScanBundle(bundle_to_sign, 1, input_address, key, 0)

AddSignatureResult(bundle_to_sign, input_address, key) ==
    ScanBundle(bundle_to_sign, 1, input_address, key, 0)

(***************************************************************************)
(* Tryte strings of hashes and sponge states.  One symbol stands for the   *)
(* 81 trytes of one hash output and names it: a digest chunk, or the       *)
(* p-th third of the state of the sponge that absorbed the chunks h.  Two  *)
(* hash outputs are equal only when their names are.  A symbol decodes to  *)
(* TritsPerTryte trits, so HASH_LENGTH is one symbol's worth of trits.     *)
(***************************************************************************)
HASH_LENGTH == TritsPerTryte

STATE_LENGTH == 3 * HASH_LENGTH

Symbol(sp, h, p) == [sponge |-> sp, h |-> h, part |-> p]

NineSymbol == Symbol("zero", <<>>, 0)

Trit(sym, k) == [of |-> sym, k |-> IF sym = NineSymbol THEN 0 ELSE k]

ZeroTrit == Trit(NineSymbol, 0)

TritsFromString(s) ==
    [i \in 1..(TritsPerTryte * Len(s)) |->
        Trit(s[((i - 1) \div TritsPerTryte) + 1], ((i - 1) % TritsPerTryte) + 1)]

TritsFromStringWithLength(s, n) ==
    [i \in 1..n |-> IF i <= TritsPerTryte * Len(s) THEN TritsFromString(s)[i] ELSE ZeroTrit]

TryteOf(t) ==
    IF t = TritsFromString(<<t[1].of>>) THEN t[1].of
    ELSE Symbol("mixed", t[1].of.h \o t[2].of.h \o t[3].of.h, t[1].k)

Trytes(t) ==
    [i \in 1..(Len(t) \div TritsPerTryte) |->
        TryteOf(SubSeq(t, TritsPerTryte * (i - 1) + 1, TritsPerTryte * i))]

(***************************************************************************)
(* Sponges.  Curl's absorb overwrites the first HASH_LENGTH trits of the   *)
(* state with the next chunk and transforms; its squeeze copies the first  *)
(* HASH_LENGTH trits out.  Kerl keeps a state of its own and squeezes      *)
(* outputs of another hash function.                                       *)
(***************************************************************************)
ChunkName(chunk) ==
    LET sym == Trytes(chunk)[1]
    IN  IF sym.sponge = "digest" THEN sym.h ELSE <<0, sym.part>> \o sym.h

CurlDefault == [i \in 1..STATE_LENGTH |-> ZeroTrit]

RestHistory(state) ==
    LET rest == Trytes(SubSeq(state, HASH_LENGTH + 1, STATE_LENGTH))
    IN  IF rest = <<NineSymbol, NineSymbol>> THEN <<>>
        ELSE IF rest = <<Symbol("curl", rest[1].h, 2), Symbol("curl", rest[1].h, 3)>> THEN rest[1].h
        ELSE <<0>> \o rest[1].h \o <<0>> \o rest[2].h

CurlTransform(state) ==
    LET h == RestHistory(state) \o ChunkName(SubSeq(state, 1, HASH_LENGTH))
    IN  TritsFromString(<<Symbol("curl", h, 1), Symbol("curl", h, 2), Symbol("curl", h, 3)>>)

RECURSIVE CurlAbsorb(_, _)
CurlAbsorb(state, trits) ==
    IF trits = <<>> THEN state
    ELSE CurlAbsorb(
            CurlTransform(SubSeq(trits, 1, HASH_LENGTH) \o SubSeq(state, HASH_LENGTH + 1, STATE_LENGTH)),
            SubSeq(trits, HASH_LENGTH + 1, Len(trits)))

CurlSqueeze(state) == SubSeq(state, 1, HASH_LENGTH)

KerlDefault == <<>>

RECURSIVE KerlAbsorb(_, _)
KerlAbsorb(state, trits) ==
    IF trits = <<>> THEN state
    ELSE KerlAbsorb(state \o ChunkName(SubSeq(trits, 1, HASH_LENGTH)),
                    SubSeq(trits, HASH_LENGTH + 1, Len(trits)))

KerlSqueeze(state) == TritsFromString(<<Symbol("kerl", state, 1)>>)

(***************************************************************************)
(* Digests of the cosigners: security-many chunks each.                    *)
(***************************************************************************)
Cosigners == 1..NumCosigners

SecurityLevels == 1..MaxSecurity

Digest(c, security) == [j \in 1..security |-> Symbol("digest", <<10 * c + j>>, 0)]

(***************************************************************************)
(* validate_address, add_address_digest, finalize_address.                 *)
(***************************************************************************)
RECURSIVE KerlAbsorbAll(_, _)
KerlAbsorbAll(kerl, ds) ==
    IF ds = <<>> THEN kerl
    ELSE KerlAbsorbAll(KerlAbsorb(kerl, TritsFromString(Head(ds))), Tail(ds))

ValidateAddressAnyOrder(addr, ds) ==
    \/ Trytes(KerlSqueeze(KerlAbsorbAll(KerlDefault, ds))) = addr
    \/ Trytes(KerlSqueeze(KerlAbsorbAll(KerlDefault,
            [i \in 1..Len(ds) |-> ds[Len(ds) + 1 - i]]))) = addr

ValidateAddress(addr, ds) ==
    Trytes(KerlSqueeze(KerlAbsorbAll(KerlDefault, ds))) = addr

Returned(t) == [status |-> "Ok", trytes |-> t]

Aborted == [status |-> "Panic", trytes |-> <<>>]

NotCalled == [status |-> "none", trytes |-> <<>>]

AddAddressDigest(digest_trytes, curl_state_trytes) ==
    LET offset == Len(digest_trytes) * TritsPerTryte
        digest == TritsFromStringWithLength(digest_trytes, offset)
        curl_state == IF curl_state_trytes # <<>>
                      THEN TritsFromStringWithLength(curl_state_trytes, offset)
                      ELSE [i \in 1..offset |-> ZeroTrit]
    IN  IF offset < STATE_LENGTH THEN Aborted
        ELSE Returned(Trytes(CurlAbsorb(SubSeq(curl_state, 1, STATE_LENGTH), digest)))

FinalizeAddress(curl_state_trytes) ==
    LET curl_state == TritsFromString(curl_state_trytes)
    IN  IF Len(curl_state) # STATE_LENGTH THEN Aborted
        ELSE Returned(Trytes(CurlSqueeze(curl_state)))

(***************************************************************************)
(* The address built by one party in one sponge session (the address       *)
(* submodule), and the same session run on Curl.                           *)
(***************************************************************************)
SynchronousAddress(ds) == Trytes(KerlSqueeze(KerlAbsorbAll(KerlDefault, ds)))

RECURSIVE CurlAbsorbAll(_, _)
CurlAbsorbAll(curl, ds) ==
    IF ds = <<>> THEN curl
    ELSE CurlAbsorbAll(CurlAbsorb(curl, TritsFromString(Head(ds))), Tail(ds))

CurlSessionAddress(ds) == Trytes(CurlSqueeze(CurlAbsorbAll(CurlDefault, ds)))

(***************************************************************************)
(* Inputs.                                                                 *)
(***************************************************************************)
SeqsUpTo(S, n) == UNION {[1..k -> S] : k \in 1..n}

Transfer(a, v, m) == [address |-> a, value |-> v, message |-> m, tag |-> <<"T">>]

DestAddress == Addr("D", TRUE)

AbsentAddress == Addr("X", FALSE)

Arguments(security_sum, balance, a, remainder_address, input_address) ==
    [security_sum |-> security_sum, balance |-> balance, address |-> a,
     remainder_address |-> remainder_address, input_address |-> input_address]

TotalOf(ts) == TransferLoop(ts, 1, LoopStart).total_value

\* Balance boundaries: every validity, value and balance, with empty messages.
BalanceTransfers ==
    {Transfer(a, v, <<>>) : a \in {DestAddress, MultisigAddress, BadAddress}, v \in 0..MaxValue}

BalanceInputs ==
    {<<ts, Arguments(s, b, a, r, MultisigAddress)>> :
        ts \in SeqsUpTo(BalanceTransfers, MaxTransfers),
        s \in 1..MaxSecuritySum,
        b \in {None} \cup {Some(v) : v \in (0 - 1)..MaxBalance},
        a \in {MultisigAddress, BadAddress},
        r \in {RemainderAddress, BadAddress}}

\* Message splitting: every message length, with valid addresses and a
\* sufficient balance.
MessageTransfers ==
    {Transfer(a, 1, Repeat("A", n)) : a \in {DestAddress, MultisigAddress}, n \in 0..MaxMsgLen}

MessageInputs ==
    UNION {{<<ts, Arguments(s, Some(TotalOf(ts) + k), MultisigAddress, RemainderAddress,
                            MultisigAddress)>> :
                s \in 1..MaxSecuritySum, k \in 0..1} :
           ts \in SeqsUpTo(MessageTransfers, MaxTransfers)}

\* Signing sessions: bundles whose transfers may go back to the multisig
\* address, with or without a message, and with or without a remainder.
SignTransfers ==
    {Transfer(a, 1, m) : a \in {DestAddress, MultisigAddress}, m \in {<<>>, <<"A">>}}

SignInputs ==
    UNION {{<<ts, Arguments(s, Some(TotalOf(ts) + k), MultisigAddress, RemainderAddress, i)>> :
                s \in 1..MaxSecuritySum, k \in 0..1, i \in {MultisigAddress, AbsentAddress}} :
           ts \in SeqsUpTo(SignTransfers, MaxTransfers)}

Replies == {TransportFailure} \cup {Reply(v) : v \in (0 - 1)..MaxBalance}

DigestLists == SeqsUpTo({Digest(c, s) : c \in Cosigners, s \in SecurityLevels}, MaxDigests)

(***************************************************************************)
(* State machine.                                                          *)
(***************************************************************************)
NoValidation == [called |-> FALSE, address |-> <<>>, digests |-> <<>>, ok |-> FALSE]

NoTransfer ==
    /\ transfers = <<>>
    /\ args = Arguments(1, None, MultisigAddress, RemainderAddress, MultisigAddress)
    /\ locals = LoopStart
    /\ result = NoResult
    /\ queries = 0
    /\ reply = TransportFailure
    /\ bundle = <<>>
    /\ signLog = <<>>

NoAddressBuild ==
    /\ digests = <<>>
    /\ absorbed = 0
    /\ curlState = NotCalled
    /\ address = NotCalled
    /\ validation = NoValidation

InitTransfer(inputs) ==
    /\ pc = "initiate"
    /\ \E in \in inputs : transfers = in[1] /\ args = in[2]
    /\ locals = LoopStart
    /\ result = NoResult
    /\ queries = 0
    /\ reply = TransportFailure
    /\ bundle = <<>>
    /\ signLog = <<>>
    /\ NoAddressBuild

InitInitiate == InitTransfer(BalanceInputs \cup MessageInputs)

InitSign == InitTransfer(SignInputs)

InitAddress ==
    /\ pc = "absorb"
    /\ digests \in DigestLists
    /\ absorbed = 0
    /\ curlState = NotCalled
    /\ address = NotCalled
    /\ validation = NoValidation
    /\ NoTransfer

transferVars == <<transfers, args, locals, result, queries, reply, bundle, signLog>>

addressVars == <<digests, absorbed, curlState, address, validation>>

\* initiate_transfer(client, uri, security_sum, balance, address,
\* remainder_address, transfers)
InitiateTransfer ==
    /\ pc = "initiate"
    /\ \E r \in IF QueriesMade(transfers, args) = 1 THEN Replies ELSE {reply} :
          /\ reply' = r
          /\ result' = InitiateTransferResult(transfers, args, r)
          /\ bundle' = result'.bundle
          /\ pc' = IF result'.status = "Ok" THEN "sign" ELSE "failed"
    /\ transfers' = StripChecksums(transfers)
    /\ locals' = IF Validated(transfers', args) = "Ok"
                 THEN TransferLoop(transfers', 1, LoopStart) ELSE LoopStart
    /\ queries' = queries + QueriesMade(transfers, args)
    /\ UNCHANGED <<args, signLog>>
    /\ UNCHANGED addressVars

\* add_signature(bundle_to_sign, input_address, key), by a cosigner who has
\* not signed yet, with a key of any security level.
AddSignature(c, security) ==
    /\ pc = "sign"
    /\ \A k \in 1..Len(signLog) : signLog[k].owner # c
    /\ LET r == AddSignatureResult(bundle, args.input_address, Key(c, security))
       IN  /\ bundle' = r.bundle
           /\ signLog' = Append(signLog, [owner |-> c, security |-> security, status |-> r.status])
           /\ pc' = IF r.status = "Ok" THEN "sign" ELSE "aborted"
    /\ UNCHANGED <<transfers, args, locals, result, queries, reply>>
    /\ UNCHANGED addressVars

\* add_signature with a key shorter than one fragment.
AddSignatureShortKey(c) ==
    /\ pc = "sign"
    /\ \A k \in 1..Len(signLog) : signLog[k].owner # c
    /\ LET r == AddSignatureResult(bundle, args.input_address, ShortKey(c))
       IN  /\ bundle' = r.bundle
           /\ signLog' = Append(signLog, [owner |-> c, security |-> Security(ShortKey(c)),
                                          status |-> r.status])
           /\ pc' = IF r.status = "Ok" THEN "sign" ELSE "aborted"
    /\ UNCHANGED <<transfers, args, locals, result, queries, reply>>
    /\ UNCHANGED addressVars

\* add_address_digest(digest, state) by the next cosigner, on the state
\* string the previous one returned (none for the first).
AbsorbDigest ==
    /\ pc = "absorb"
    /\ absorbed < Len(digests)
    /\ curlState' = AddAddressDigest(digests[absorbed + 1], curlState.trytes)
    /\ absorbed' = absorbed + 1
    /\ pc' = IF curlState'.status = "Ok" THEN "absorb" ELSE "aborted"
    /\ UNCHANGED <<digests, address, validation>>
    /\ UNCHANGED transferVars

\* finalize_address(state) once every digest is absorbed.
Finalize ==
    /\ pc = "absorb"
    /\ absorbed = Len(digests)
    /\ address' = FinalizeAddress(curlState.trytes)
    /\ pc' = IF address'.status = "Ok" THEN "finalized" ELSE "aborted"
    /\ UNCHANGED <<digests, absorbed, curlState, validation>>
    /\ UNCHANGED transferVars

\* finalize_address on a state string cut short: only its first n symbols.
FinalizeMalformed(n) ==
    /\ pc = "absorb"
    /\ address' = FinalizeAddress(Take(curlState.trytes, n))
    /\ pc' = IF address'.status = "Ok" THEN "finalized" ELSE "malformed"
    /\ UNCHANGED <<digests, absorbed, curlState, validation>>
    /\ UNCHANGED transferVars

RECURSIVE Reverse(_)
Reverse(s) == IF s = <<>> THEN <<>> ELSE Append(Reverse(Tail(s)), Head(s))

Candidates ==
    (IF address.status = "Ok" THEN {address.trytes} ELSE {}) \cup {SynchronousAddress(digests)}

\* validate_address(address, digests), on the address the cosigners built
\* step by step or on the one built in one session, with the digest list in
\* the agreed order or reversed.
Validate ==
    /\ pc \in {"finalized", "aborted"}
    /\ ~validation.called
    /\ \E addr \in Candidates, ds \in {digests, Reverse(digests)} :
          validation' = [called |-> TRUE, address |-> addr, digests |-> ds,
                         ok |-> ValidateAddress(addr, ds)]
    /\ UNCHANGED <<pc, digests, absorbed, curlState, address>>
    /\ UNCHANGED transferVars

NextInitiate == InitiateTransfer

NextSign ==
    \/ InitiateTransfer
    \/ \E c \in Cosigners, security \in SecurityLevels : AddSignature(c, security)
    \/ \E c \in Cosigners : AddSignatureShortKey(c)

NextAddress ==
    \/ AbsorbDigest
    \/ Finalize
    \/ \E n \in 0..(STATE_LENGTH \div TritsPerTryte - 1) : FinalizeMalformed(n)
    \/ Validate

SpecInitiate == InitInitiate /\ [][NextInitiate]_vars

SpecSign == InitSign /\ [][NextSign]_vars

SpecAddress == InitAddress /\ [][NextAddress]_vars

Init == InitInitiate \/ InitSign \/ InitAddress

Next == NextSign \/ NextAddress

Spec == Init /\ [][Next]_vars

(***************************************************************************)
(* Properties of initiate_transfer, checked under SpecInitiate.            *)
(***************************************************************************)
Called == pc # "initiate"

ValidCall == Validated(transfers, args) = "Ok"

TotalValue == TotalOf(transfers)

AvailableKnown == args.balance.some \/ (queries = 1 /\ reply.ok)

AvailableBalance == IF args.balance.some THEN args.balance.value ELSE reply.value

RemainderEntries ==
    {i \in 1..Len(result.bundle) : result.bundle[i].address = args.remainder_address}

\* C3: with valid addresses and a valid transfer list whose values sum to 0,
\* initiate_transfer fails with the no-signature-required error and returns
\* no bundle, whatever the balance override is.
C3_ZeroValueRejected ==
    (Called /\ ValidCall /\ TotalValue = 0) => result = Err("NoSignatureRequired")

C3_Witness ==
    /\ Called /\ ValidCall /\ TotalValue = 0
    /\ args.balance.some /\ args.balance.value > 0
    /\ result.status = "NoSignatureRequired"

\* C4: with total value T > 0 and balance override B, B = T gives a bundle
\* with no remainder entry, and B = T + k (k > 0) gives a bundle with exactly
\* one entry addressed to the remainder address, of value k.
C4_RemainderBoundary ==
    (Called /\ ValidCall /\ args.balance.some /\ TotalValue > 0
        /\ args.balance.value >= TotalValue)
    => /\ result.status = "Ok"
       /\ IF args.balance.value = TotalValue
          THEN RemainderEntries = {}
          ELSE /\ Cardinality(RemainderEntries) = 1
               /\ \A i \in RemainderEntries :
                     result.bundle[i].value = args.balance.value - TotalValue

C4_Witness ==
    /\ Called /\ ValidCall /\ args.balance.some /\ TotalValue > 0
    /\ args.balance.value = TotalValue + 2
    /\ \E i \in RemainderEntries : result.bundle[i].value = 2

\* C5: with a non-zero total value T, initiate_transfer fails with the
\* insufficient-balance error and returns no bundle whenever the available
\* balance (the override, or the queried value) is smaller than T.
C5_InsufficientBalance ==
    (Called /\ ValidCall /\ TotalValue # 0 /\ AvailableKnown
        /\ AvailableBalance < TotalValue)
    => result = Err("NotEnoughBalance")

C5_Witness ==
    /\ Called /\ ValidCall /\ TotalValue # 0
    /\ ~args.balance.some /\ queries = 1 /\ reply.ok /\ reply.value <= 0
    /\ result.status = "NotEnoughBalance"

CeilDiv(a, b) == (a + b - 1) \div b

FragmentCount(message) ==
    IF CeilDiv(Len(message), MESSAGE_LENGTH) > 1 THEN CeilDiv(Len(message), MESSAGE_LENGTH) ELSE 1

RECURSIVE ExpectedFragments(_, _)
ExpectedFragments(ts, i) ==
    IF i > Len(ts) THEN <<>>
    ELSE [k \in 1..FragmentCount(ts[i].message) |->
             [c \in 1..MESSAGE_LENGTH |->
                 IF (k - 1) * MESSAGE_LENGTH + c <= Len(ts[i].message)
                 THEN ts[i].message[(k - 1) * MESSAGE_LENGTH + c] ELSE "9"]]
         \o ExpectedFragments(ts, i + 1)

\* C6: for every message length L, initiate_transfer builds
\* max(1, ceil(L / MESSAGE_LENGTH)) fragments for the transfer, each
\* MESSAGE_LENGTH wide and the last right-padded with '9', and the
\* signatureMessageLength it passes to the bundle for that transfer equals
\* that number of fragments.
C6_MessageSplitting ==
    (Called /\ ValidCall)
    => /\ locals.signature_fragments = ExpectedFragments(transfers, 1)
       /\ \A i \in 1..Len(transfers) :
             locals.signature_message_length[i] = FragmentCount(transfers[i].message)

\* The part of C6 about the fragments alone.
C6_FragmentsBuilt ==
    (Called /\ ValidCall) => locals.signature_fragments = ExpectedFragments(transfers, 1)

(***************************************************************************)
(* Properties of add_signature, checked under SpecSign.                    *)
(***************************************************************************)
InputEntries(b) == {i \in 1..Len(b) : b[i].address = args.input_address}

Unsigned(b) == {i \in InputEntries(b) : IsNineFragment(b[i].signature_fragments)}

SigningInput == pc \in {"sign", "aborted"} /\ args.input_address = args.address

NoTransferToInput == \A i \in 1..Len(transfers) : transfers[i].address # args.address

EverySignerOnce ==
    /\ Len(signLog) = args.security_sum
    /\ \A k \in 1..Len(signLog) : signLog[k].security = 1 /\ signLog[k].status = "Ok"

\* C1: starting from a bundle of initiate_transfer whose multisig input is
\* security_sum consecutive unsigned entries, once security_sum cosigners
\* have each called add_signature once with the input address and their own
\* key, no entry carrying the input address still holds the all-nines
\* placeholder.
C1_RotationCompletes ==
    (SigningInput /\ NoTransferToInput /\ EverySignerOnce) => Unsigned(bundle) = {}

\* What the calls of C1 leave behind instead: the bundle initiate_transfer
\* returned, with every input entry still unsigned.
C1_NothingSigned ==
    (SigningInput /\ NoTransferToInput) => bundle = result.bundle

C1_Witness ==
    /\ SigningInput /\ NoTransferToInput /\ EverySignerOnce
    /\ args.security_sum = 2
    /\ Cardinality(Unsigned(bundle)) = 2

\* C2: add_signature never changes the signature fragment of an entry that
\* carries the input address and was already signed (did not hold the
\* all-nines placeholder) before the call.
C2_SignedFragmentsKept ==
    [][SigningInput =>
        \A i \in InputEntries(bundle) \ Unsigned(bundle) :
            bundle'[i].signature_fragments = bundle[i].signature_fragments]_vars

Contiguous(b) ==
    \A i, j \in InputEntries(b) : \A m \in i..j : m \in InputEntries(b)

Written == {i \in 1..Len(bundle) : bundle'[i].signature_fragments # bundle[i].signature_fragments}

Position(b, i) == Cardinality({m \in InputEntries(b) : m < i})

\* C10: in a bundle whose entries carrying the input address are contiguous,
\* a fragment that a call of add_signature writes into the k-th such entry
\* is the caller's signature of normalized-hash chunk k mod 3 made with key
\* chunk j, where j is the entry's offset from the first entry the call
\* writes; the hash chunk does not depend on whose key it is.
C10_PositionDeterminedRotation ==
    [][(SigningInput /\ Contiguous(bundle)) =>
        \A i \in Written \cap InputEntries(bundle) :
            LET f == bundle'[i].signature_fragments
            IN  /\ f.kind = "sig"
                /\ f.owner = signLog'[Len(signLog')].owner
                /\ f.hashChunk = Position(bundle, i) % NormalizedChunks
                /\ \A first \in Written :
                      (\A m \in Written : first <= m) => f.keyChunk = i - first]_vars

C10_Witness ==
    /\ SigningInput /\ Contiguous(bundle)
    /\ \E i \in InputEntries(bundle) :
          /\ Position(bundle, i) = 3
          /\ bundle[i].signature_fragments.kind = "sig"
          /\ bundle[i].signature_fragments.hashChunk = 0
          /\ bundle[i].signature_fragments.keyChunk = 2

(***************************************************************************)
(* Properties of the address builder, checked under SpecAddress.           *)
(***************************************************************************)
RECURSIVE AbsorbOneByOne(_, _)
AbsorbOneByOne(ds, state) ==
    IF ds = <<>> \/ state.status # "Ok" THEN state
    ELSE AbsorbOneByOne(Tail(ds), AddAddressDigest(Head(ds), state.trytes))

IncrementalAddress(ds) ==
    LET state == AbsorbOneByOne(ds, Returned(<<>>))
    IN  IF state.status = "Ok" THEN FinalizeAddress(state.trytes) ELSE Aborted

BuildEnded == pc \in {"finalized", "aborted"}

\* C7: the address obtained by absorbing the digests of a non-empty list one
\* after another with add_address_digest and finalizing is accepted by
\* validate_address with the same list.
C7_ValidationRoundTrip ==
    (pc = "finalized" /\ validation.called /\ validation.digests = digests
        /\ validation.address = address.trytes)
    => validation.ok

\* C8: absorbing the digests one call at a time, handing the returned state
\* string to the next call, and finalizing yields the address of one Curl
\* session that absorbs the same digests in the same order and squeezes.
C8_IncrementalEquivalence ==
    BuildEnded => address = Returned(CurlSessionAddress(digests))

\* The same for digests as wide as the sponge state (security level 3).
C8_WhenBuilt ==
    pc = "finalized" => address = Returned(CurlSessionAddress(digests))

OtherFieldsKept ==
    /\ Len(bundle') = Len(bundle)
    /\ \A i \in 1..Len(bundle) :
          /\ bundle'[i].address = bundle[i].address
          /\ bundle'[i].value = bundle[i].value
          /\ bundle'[i].tag = bundle[i].tag

\* C11: one call of add_signature with a key of security s on a bundle of
\* initiate_transfer changes the signature fragment of at most s entries,
\* these entries are consecutive, and each of them carries the input
\* address; the entries with another address and the other fields of every
\* entry stay as they were.
C11_OneGroupPerCall ==
    [][pc = "sign" =>
        /\ Cardinality(Written) <= signLog'[Len(signLog')].security
        /\ \A i, j \in Written : \A m \in i..j : m \in Written
        /\ Written \subseteq InputEntries(bundle)
        /\ OtherFieldsKept]_vars

Layout(b) == [i \in 1..Len(b) |-> [address |-> b[i].address, value |-> b[i].value]]

RECURSIVE TransferPart(_)
TransferPart(k) ==
    IF k > Len(transfers) THEN <<>>
    ELSE [j \in 1..locals.signature_message_length[k] |->
             [address |-> transfers[k].address,
              value |-> IF j = 1 THEN transfers[k].value ELSE 0]]
         \o TransferPart(k + 1)

InputPart ==
    [j \in 1..args.security_sum |->
        [address |-> args.address, value |-> IF j = 1 THEN 0 - AvailableBalance ELSE 0]]

RemainderPart ==
    <<[address |-> args.remainder_address, value |-> AvailableBalance - TotalValue]>>

WithChange == result.status = "Ok" /\ AvailableBalance > TotalValue

\* C12: when the available balance exceeds the total value, the bundle
\* initiate_transfer returns is the transfer entries in request order, then
\* the security_sum entries of the multisig input, then the remainder entry.
C12_InputBeforeRemainder ==
    WithChange => Layout(result.bundle) = TransferPart(1) \o InputPart \o RemainderPart

\* C12 as first stated: the remainder entry comes before the input entries.
C12_RemainderBeforeInput ==
    WithChange => Layout(result.bundle) = TransferPart(1) \o RemainderPart \o InputPart

C12_Witness ==
    /\ WithChange
    /\ Len(transfers) = 2
    /\ args.security_sum = 2
    /\ Layout(result.bundle)[Len(result.bundle)].address = args.remainder_address

QueryNeeded == ValidCall /\ TotalValue # 0 /\ ~args.balance.some

\* C13: one call of initiate_transfer makes no balance query when a balance
\* override is given, when validation fails or when the transfers sum to
\* zero, and exactly one otherwise; when that query fails, its failure is
\* what the call returns.
C13_QueryCount ==
    Called =>
        /\ queries = IF QueryNeeded THEN 1 ELSE 0
        /\ (QueryNeeded /\ ~reply.ok) => result = Err("TransportFailure")

C13_Witness == Called /\ queries = 1 /\ ~reply.ok /\ result.status = "TransportFailure"

MultisigEntries == {i \in 1..Len(result.bundle) : result.bundle[i].address = args.address}

NothingElseToMultisig == NoTransferToInput /\ args.remainder_address # args.address

\* C14: in a bundle returned by initiate_transfer with no transfer and no
\* remainder addressed to the multisig address, exactly security_sum entries
\* carry the multisig address, they are consecutive, the first of them has
\* value -availableBalance and the others 0, and each holds the all-nines
\* placeholder, whatever the lengths of the transfer messages.
C14_UnsignedInputSlots ==
    (result.status = "Ok" /\ NothingElseToMultisig) =>
        /\ Cardinality(MultisigEntries) = args.security_sum
        /\ \A i, j \in MultisigEntries : \A m \in i..j : m \in MultisigEntries
        /\ \A i \in MultisigEntries :
              /\ IsNineFragment(result.bundle[i].signature_fragments)
              /\ result.bundle[i].value =
                    IF i - 1 \in MultisigEntries THEN 0 ELSE 0 - AvailableBalance

C14_Witness ==
    /\ result.status = "Ok"
    /\ NothingElseToMultisig
    /\ args.security_sum = MaxSecuritySum
    /\ Len(transfers) = 2
    /\ \E k \in 1..Len(transfers) : Len(transfers[k].message) = 2 * MESSAGE_LENGTH

RECURSIVE SumValues(_, _)
SumValues(b, i) == IF i > Len(b) THEN 0 ELSE b[i].value + SumValues(b, i + 1)

\* C15: the values of all entries of a bundle returned by initiate_transfer
\* sum to zero.
C15_ValueConservation == result.status = "Ok" => SumValues(result.bundle, 1) = 0

C15_Witness ==
    /\ result.status = "Ok"
    /\ AvailableBalance > TotalValue
    /\ TotalValue = 2 * MaxValue
    /\ SumValues(result.bundle, 1) = 0

\* C18: a call of initiate_transfer, whether it returns a bundle or fails,
\* leaves the caller's transfer list as it was, checksum suffixes included.
C18_TransfersUntouched == [][pc = "initiate" => transfers' = transfers]_vars

\* C16: add_address_digest succeeds for a digest of any security level,
\* given no state or the state string of an earlier call, and returns the
\* full-width state of a Curl sponge that has absorbed the digests so far.
C16_AbsorbAnyWidth ==
    absorbed > 0 =>
        curlState = Returned(Trytes(CurlAbsorbAll(CurlDefault, SubSeq(digests, 1, absorbed))))

\* C17: when no entry of the bundle carries input_address, add_signature
\* returns success and leaves every entry as it was, whatever the key,
\* one shorter than a fragment included.
C17_AbsentAddressNoOp ==
    [][(pc = "sign" /\ InputEntries(bundle) = {}) =>
        /\ bundle' = bundle
        /\ signLog'[Len(signLog')].status = "Ok"]_vars

C17_Witness ==
    /\ pc = "sign"
    /\ bundle # <<>>
    /\ InputEntries(bundle) = {}
    /\ bundle = result.bundle
    /\ \E k \in 1..Len(signLog) : signLog[k].security = 0 /\ signLog[k].status = "Ok"
    /\ \E k \in 1..Len(signLog) : signLog[k].security = MaxSecurity /\ signLog[k].status = "Ok"

\* C19: finalize_address on a state string of the wrong width, and
\* add_signature with a key shorter than one fragment on a bundle that has
\* an entry carrying input_address, return an error value instead of
\* aborting, and add_signature leaves the bundle as it was.
C19_TypedFailures ==
    [][/\ pc' = "malformed" => address'.status = "Err"
       /\ (pc = "sign" /\ InputEntries(bundle) # {}
             /\ signLog'[Len(signLog')].security = 0)
          => (signLog'[Len(signLog')].status = "Err" /\ bundle' = bundle)]_vars

====
